---- MODULE Spec2Model ----
(***************************************************************************)
(* Background jobs of src/lib/inngest/functions.js: the recurring-         *)
(* transaction trigger and processor, the budget-alert checker, and the    *)
(* date helpers they use.                                                  *)
(*                                                                         *)
(* Time is counted in slots: SlotsPerDay slots make one local calendar     *)
(* day, slot 0 being the Unix epoch.  A JavaScript Date is its slot number.*)
(***************************************************************************)
EXTENDS Integers, Sequences, FiniteSets

VARIABLES
  now,        \* the wall clock, what `new Date()` returns
  templates,  \* transaction rows that exist from the start, by id
  ledger,     \* transaction rows created by firings, in commit order
  balance,    \* Account.balance, by account id
  events,     \* transaction.recurring.process events sent and not yet consumed
  runs,       \* the runs of process-recurring-transaction, by slot
  failures,   \* runs that ended by throwing
  skipped,    \* history: the event the latest run without a firing returned on
  applied,    \* history: per template, committed increments and advances
  budgets,    \* budget rows, by id
  emails,     \* budget-alert emails sent, in order
  checks,     \* the runs of check-budget-alerts, by slot
  calc,       \* a chain of calculateNextRecurringDate applications
  dueCall     \* one call of isTransactionDue: its argument and its result

dbVars == <<templates, ledger, balance, applied>>
jobVars == <<events, runs, failures, skipped>>
alertVars == <<budgets, emails, checks>>
calcVars == <<calc, dueCall>>
vars == <<now, templates, ledger, balance, events, runs, failures, skipped, applied,
          budgets, emails, checks, calc, dueCall>>

----------------------------------------------------------------------------
(* Bounds of the model *)

SlotsPerDay == 2
MaxK == 12
MaxStartOffset == 460
MaxTicks == 2
MaxRuns == 2
MaxPending == 2
MaxFailures == 1
MaxLedger == 2
MaxChecks == 2

(* a null column / an absent value; dates and amounts are naturals *)
NULL == 0 - 1

----------------------------------------------------------------------------
(* JavaScript Date, in local time *)

\* days since 1970-01-01 of the proleptic Gregorian date y-m-d (m in 1..12)
DaysFromCivil(y, m, d) ==
  LET yy  == IF m <= 2 THEN y - 1 ELSE y
      era == yy \div 400
      yoe == yy - era * 400
      mp  == IF m > 2 THEN m - 3 ELSE m + 9
      doy == (153 * mp + 2) \div 5 + d - 1
      doe == yoe * 365 + yoe \div 4 - yoe \div 100 + doy
  IN  era * 146097 + doe - 719468

\* the Gregorian date of day number z, as [y, m, d] with m in 1..12
CivilFromDays(z) ==
  LET zz  == z + 719468
      era == zz \div 146097
      doe == zz - era * 146097
      yoe == (doe - doe \div 1460 + doe \div 36524 - doe \div 146096) \div 365
      doy == doe - (365 * yoe + yoe \div 4 - yoe \div 100)
      mp  == (5 * doy + 2) \div 153
      d   == doy - (153 * mp + 2) \div 5 + 1
      m   == IF mp < 10 THEN mp + 3 ELSE mp - 9
      y   == yoe + era * 400 + (IF m <= 2 THEN 1 ELSE 0)
  IN  [y |-> y, m |-> m, d |-> d]

DayOf(ts) == ts \div SlotsPerDay
TimeOfDay(ts) == ts % SlotsPerDay

getFullYear(ts) == CivilFromDays(DayOf(ts)).y
getMonth(ts) == CivilFromDays(DayOf(ts)).m - 1
getDate(ts) == CivilFromDays(DayOf(ts)).d

\* MakeDay/MakeDate of ECMAScript: a month outside 0..11 carries into the
\* year, a day outside the month carries into the following months
MakeDate(y, m0, d, tod) ==
  (DaysFromCivil(y + m0 \div 12, (m0 % 12) + 1, 1) + d - 1) * SlotsPerDay + tod

setDate(ts, d) == MakeDate(getFullYear(ts), getMonth(ts), d, TimeOfDay(ts))
setMonth(ts, m0) == MakeDate(getFullYear(ts), m0, getDate(ts), TimeOfDay(ts))
setFullYear(ts, y) == MakeDate(y, getMonth(ts), getDate(ts), TimeOfDay(ts))

\* new Date(x): a Date passes through, null is the epoch
NewDate(x) == IF x = NULL THEN 0 ELSE x

\* the slot of local date y-m-d (m in 1..12) at time of day tod
At(y, m, d, tod) == DaysFromCivil(y, m, d) * SlotsPerDay + tod

----------------------------------------------------------------------------
(* Utility functions *)

Intervals == {"DAILY", "WEEKLY", "MONTHLY", "YEARLY"}
\* a null recurringInterval
NoInterval == "null"
\* a recurringInterval that is none of the four
MalformedInterval == "FORTNIGHTLY"

isNewMonth(lastAlertDate, currentDate) ==
  \/ getMonth(lastAlertDate) # getMonth(currentDate)
  \/ getFullYear(lastAlertDate) # getFullYear(currentDate)

\* the next date never looked at
isTransactionDueUnchecked(transaction) == TRUE

\* the next date compared with < for <=
isTransactionDueStrict(transaction) ==
  IF transaction.lastProcessed = NULL THEN TRUE
  ELSE NewDate(transaction.nextRecurringDate) < now

isTransactionDue(transaction) ==
  IF transaction.lastProcessed = NULL THEN TRUE
  ELSE NewDate(transaction.nextRecurringDate) <= now

\* a month taken for 30 days
calculateNextRecurringDateFixedMonth(date, interval) ==
  LET next == NewDate(date)
  IN  CASE interval = "DAILY"   -> setDate(next, getDate(next) + 1)
        [] interval = "WEEKLY"  -> setDate(next, getDate(next) + 7)
        [] interval = "MONTHLY" -> setDate(next, getDate(next) + 30)
        [] interval = "YEARLY"  -> setFullYear(next, getFullYear(next) + 1)
        [] OTHER                -> next

calculateNextRecurringDate(date, interval) ==
  LET next == NewDate(date)
  IN  CASE interval = "DAILY"   -> setDate(next, getDate(next) + 1)
        [] interval = "WEEKLY"  -> setDate(next, getDate(next) + 7)
        [] interval = "MONTHLY" -> setMonth(next, getMonth(next) + 1)
        [] interval = "YEARLY"  -> setFullYear(next, getFullYear(next) + 1)
        [] OTHER                -> next

----------------------------------------------------------------------------
(* The database *)

TxnIds == {1, 2}
UserIds == {"u1"}
AccountIds == {"a1"}
Runs == 1 .. MaxRuns

StartNow == At(2024, 1, 30, 0)

\* a transaction row the user created; a recurring one is a template
Template(id, type, interval, recurring, lastProcessed, nextRecurringDate) ==
  [id |-> id,
   userId |-> "u1",
   accountId |-> "a1",
   type |-> type,
   amount |-> IF id = 1 THEN 100 ELSE 40,
   description |-> IF id = 1 THEN "rent" ELSE "groceries",
   category |-> IF id = 1 THEN "housing" ELSE "food",
   date |-> StartNow - SlotsPerDay,
   isRecurring |-> recurring,
   status |-> "COMPLETED",
   recurringInterval |-> interval,
   lastProcessed |-> lastProcessed,
   nextRecurringDate |-> nextRecurringDate]

\* Decimal.toNumber(): exact for the amounts of the model, which are
\* integers far below 2^53
toNumber(amount) == amount

\* every row of the transaction table
Rows == {templates[t] : t \in TxnIds} \cup {ledger[i] : i \in 1 .. Len(ledger)}

\* the owner left out of the where clause
findById(id, userId) == {row \in Rows : row.id = id}

\* db.transaction.findUnique({where: {id, userId}}): the rows it finds
findUnique(id, userId) == {row \in Rows : row.id = id /\ row.userId = userId}

----------------------------------------------------------------------------
(* Trigger Recurring Transactions *)

\* the ids a transaction row can have: the rows that exist from the start and
\* the rows firings create
RowIds == 1 .. Cardinality(TxnIds) + MaxLedger
\* an id no transaction row has
MissingId == Cardinality(TxnIds) + MaxLedger + 1

\* a userId that is missing from event.data
NoUser == ""
\* a user who owns no transaction
OtherUser == "u2"

\* event.data of the events the trigger can send: a row's id and userId
RowEvents == [transactionId : RowIds, userId : UserIds]

\* event.data of transaction.recurring.process events that name no row of the
\* table: no transactionId, no userId, another user's id, an id without a row
ForeignEvents ==
  {[transactionId |-> NULL, userId |-> "u1"],
   [transactionId |-> 1, userId |-> NoUser],
   [transactionId |-> 1, userId |-> OtherUser],
   [transactionId |-> MissingId, userId |-> "u1"]}

\* event.data of the events process-recurring-transaction can be given
Events == RowEvents \cup ForeignEvents

\* the status filter forgotten
SelectedIgnoringStatus(row) ==
  /\ row.isRecurring = TRUE
  /\ \/ row.lastProcessed = NULL
     \/ row.nextRecurringDate # NULL /\ row.nextRecurringDate <= now

\* the where clause of fetch-recurring-transactions; a null column never
\* satisfies lte
SelectedByTrigger(row) ==
  /\ row.isRecurring = TRUE
  /\ row.status = "COMPLETED"
  /\ \/ row.lastProcessed = NULL
     \/ row.nextRecurringDate # NULL /\ row.nextRecurringDate <= now

recurringTransactions == {row \in Rows : SelectedByTrigger(row)}

EventOf(row) == [transactionId |-> row.id, userId |-> row.userId]

RECURSIVE Sum(_, _)
Sum(f, S) == IF S = {} THEN 0
             ELSE LET x == CHOOSE x \in S : TRUE IN f[x] + Sum(f, S \ {x})

\* events sent and not yet consumed
Pending == Sum(events, {e \in Events : events[e] > 0})

triggerRecurringTransactions ==
  LET sent == {EventOf(row) : row \in recurringTransactions}
  IN  /\ Pending + Cardinality(sent) <= MaxPending
      /\ events' = [e \in Events |-> IF e \in sent THEN events[e] + 1 ELSE events[e]]
      /\ UNCHANGED <<now, dbVars, runs, failures, skipped, alertVars, calcVars>>

----------------------------------------------------------------------------
(* Process Recurring Transaction *)

NoneApplied == [increments |-> 0, advances |-> 0]

IdleRun ==
  [pc |-> "idle",
   transaction |-> Template(1, "EXPENSE", "DAILY", FALSE, NULL, NULL),
   occurrence |-> 0,
   entryDate |-> NULL,
   balanceChange |-> 0,
   lastProcessed |-> NULL,
   nextRecurringDate |-> NULL]

InTransaction == {"create", "increment", "update", "commit"}

\* the generated row taking isRecurring over from its template
GeneratedEntryCopyingRecurring(r) ==
  LET transaction == runs[r].transaction
  IN  [id |-> Cardinality(TxnIds) + Len(ledger) + 1,
       type |-> transaction.type,
       amount |-> transaction.amount,
       description |-> transaction.description \o " (Recurring)",
       date |-> runs[r].entryDate,
       category |-> transaction.category,
       userId |-> transaction.userId,
       accountId |-> transaction.accountId,
       isRecurring |-> transaction.isRecurring,
       status |-> "COMPLETED",
       recurringInterval |-> NoInterval,
       lastProcessed |-> NULL,
       nextRecurringDate |-> NULL,
       template |-> transaction.id,
       occurrence |-> runs[r].occurrence]

\* the row tx.transaction.create inserts, lines 33-44; the columns it does
\* not set are null, status takes the schema's default.  template and
\* occurrence are history: the row it was generated from and how often that
\* row had been advanced when the run read it.
GeneratedEntry(r) ==
  LET transaction == runs[r].transaction
  IN  [id |-> Cardinality(TxnIds) + Len(ledger) + 1,
       type |-> transaction.type,
       amount |-> transaction.amount,
       description |-> transaction.description \o " (Recurring)",
       date |-> runs[r].entryDate,
       category |-> transaction.category,
       userId |-> transaction.userId,
       accountId |-> transaction.accountId,
       isRecurring |-> FALSE,
       status |-> "COMPLETED",
       recurringInterval |-> NoInterval,
       lastProcessed |-> NULL,
       nextRecurringDate |-> NULL,
       template |-> transaction.id,
       occurrence |-> runs[r].occurrence]

\* the sign of an EXPENSE forgotten
balanceChangeUnsigned(transaction) ==
  IF transaction.amount # NULL THEN toNumber(transaction.amount) ELSE 0

\* lines 31 and 46
balanceChange(transaction) ==
  LET amountValue == IF transaction.amount # NULL
                     THEN toNumber(transaction.amount) ELSE 0
  IN  IF transaction.type = "EXPENSE" THEN 0 - amountValue ELSE amountValue

\* the writes of a transaction that have been issued, applied to the database
ApplyWrites(r, pc) ==
  LET t == runs[r].transaction.id
      created == pc \in {"increment", "update", "commit"}
      incremented == pc \in {"update", "commit"}
      updated == pc = "commit"
  IN  /\ ledger' = IF created THEN Append(ledger, GeneratedEntry(r)) ELSE ledger
      /\ balance' = IF incremented
                    THEN [balance EXCEPT ![runs[r].transaction.accountId] =
                            @ + runs[r].balanceChange]
                    ELSE balance
      /\ templates' = IF updated
                      THEN [templates EXCEPT
                              ![t].lastProcessed = runs[r].lastProcessed,
                              ![t].nextRecurringDate = runs[r].nextRecurringDate]
                      ELSE templates
      /\ applied' = [applied EXCEPT
                       ![t].increments = @ + (IF incremented THEN 1 ELSE 0),
                       ![t].advances = @ + (IF updated THEN 1 ELSE 0)]

\* without the transaction boundary the writes issued before the failure stay
RollbackNothing(r) == ApplyWrites(r, runs[r].pc)

\* db.$transaction rejects: none of its writes is applied
Rollback(r) == UNCHANGED dbVars

\* the catch block swallowing the error: the run ends normally
CatchSwallow(r) == UNCHANGED failures

\* the catch block, lines 65-68: log and rethrow, the run ends failed
Catch(r) == failures' = failures + 1

InFlight == Cardinality({r \in Runs : runs[r].pc # "idle"})

\* lines 19-28: take an event, look the transaction up, return unless due
ProcessStart(r) ==
  \E e \in Events :
    /\ runs[r].pc = "idle"
    /\ \A q \in Runs : q < r => runs[q].pc # "idle"
    /\ Len(ledger) + InFlight < MaxLedger
    /\ events[e] > 0
    /\ events' = [events EXCEPT ![e] = @ - 1]
    /\ LET found == findUnique(e.transactionId, e.userId)
       IN  IF \/ e.transactionId = NULL \/ e.userId = NoUser
              \/ found = {} \/ \A row \in found : ~isTransactionDue(row)
           THEN /\ UNCHANGED runs
                /\ skipped' = {e}
           ELSE \E transaction \in found :
                  /\ runs' = [runs EXCEPT ![r] =
                       [IdleRun EXCEPT !.pc = "create",
                                       !.transaction = transaction,
                                       !.occurrence = applied[transaction.id].advances]]
                  /\ UNCHANGED skipped
    /\ UNCHANGED <<now, dbVars, failures, alertVars, calcVars>>

\* lines 33-44
TxCreate(r) ==
  /\ runs[r].pc = "create"
  /\ runs' = [runs EXCEPT ![r].pc = "increment", ![r].entryDate = now]
  /\ UNCHANGED <<now, dbVars, events, failures, skipped, alertVars, calcVars>>

\* lines 46-51
TxIncrement(r) ==
  /\ runs[r].pc = "increment"
  /\ runs' = [runs EXCEPT ![r].pc = "update",
                          ![r].balanceChange = balanceChange(runs[r].transaction)]
  /\ UNCHANGED <<now, dbVars, events, failures, skipped, alertVars, calcVars>>

\* lines 53-62
TxUpdate(r) ==
  /\ runs[r].pc = "update"
  /\ runs' = [runs EXCEPT
                ![r].pc = "commit",
                ![r].lastProcessed = now,
                ![r].nextRecurringDate =
                  calculateNextRecurringDate(now, runs[r].transaction.recurringInterval)]
  /\ UNCHANGED <<now, dbVars, events, failures, skipped, alertVars, calcVars>>

\* db.$transaction resolves: the three writes become visible together
TxCommit(r) ==
  /\ runs[r].pc = "commit"
  /\ ApplyWrites(r, "commit")
  /\ runs' = [runs EXCEPT ![r] = IdleRun]
  /\ UNCHANGED <<now, events, failures, skipped, alertVars, calcVars>>

\* a write or the commit rejects; the job runner may deliver the event again
TxFail(r) ==
  /\ runs[r].pc \in InTransaction
  /\ failures < MaxFailures
  /\ Rollback(r)
  /\ Catch(r)
  /\ runs' = [runs EXCEPT ![r] = IdleRun]
  /\ \E retry \in BOOLEAN :
       LET e == EventOf(runs[r].transaction)
       IN  events' = IF retry /\ Pending < MaxPending
                     THEN [events EXCEPT ![e] = @ + 1]
                     ELSE events
  /\ UNCHANGED <<now, skipped, alertVars, calcVars>>

Tick ==
  /\ now < StartNow + MaxTicks
  /\ now' = now + 1
  /\ UNCHANGED <<dbVars, jobVars, alertVars, calcVars>>

----------------------------------------------------------------------------
(* States at rest *)

NoCalc == [interval |-> "DAILY", start |-> 0, prev |-> 0, date |-> 0, k |-> 0]
NoDueCall == [lastProcessed |-> NULL, nextRecurringDate |-> NULL,
              called |-> FALSE, result |-> FALSE]

IdleJobs ==
  /\ events = [e \in Events |-> 0]
  /\ runs = [r \in Runs |-> IdleRun]
  /\ failures = 0
  /\ skipped = {}

----------------------------------------------------------------------------
(* Check Budget Alerts *)

BudgetIds == {1}
Checks == 1 .. MaxChecks

AlertThreshold == 80

\* a budget row with what fetch-budgets includes: the user's email and
\* whether the user has a default account
Budget(id, amount, lastAlertSent, hasEmail, hasDefaultAccount) ==
  [id |-> id,
   userId |-> "u1",
   amount |-> amount,
   lastAlertSent |-> lastAlertSent,
   hasEmail |-> hasEmail,
   defaultAccount |-> IF hasDefaultAccount THEN {"a1"} ELSE {}]

NoBudget == Budget(1, 0, NULL, FALSE, FALSE)

IdleCheck == [pc |-> "idle", budgets |-> [b \in BudgetIds |-> NoBudget], todo |-> {}]

\* the budget-alert side at rest, for the specifications that leave it alone
NoAlerts ==
  /\ budgets = [b \in BudgetIds |-> NoBudget]
  /\ emails = <<>>
  /\ checks = [c \in Checks |-> IdleCheck]

\* the budget the loop of run c is at
Current(c) == CHOOSE b \in checks[c].todo : \A o \in checks[c].todo : b <= o

\* the run goes on to the next budget, or ends
Advance(c) ==
  IF checks[c].todo = {Current(c)}
  THEN [checks EXCEPT ![c] = IdleCheck]
  ELSE [checks EXCEPT ![c].pc = "loop", ![c].todo = @ \ {Current(c)}]

RECURSIVE SumAmounts(_)
SumAmounts(rows) ==
  IF rows = {} THEN 0
  ELSE LET row == CHOOSE row \in rows : TRUE
       IN  toNumber(row.amount) + SumAmounts(rows \ {row})

\* db.transaction.aggregate, lines 203-211, and `?.toNumber() || 0`
totalExpenses(userId, accountId, startDate) ==
  SumAmounts({row \in Rows : /\ row.userId = userId
                             /\ row.accountId = accountId
                             /\ row.type = "EXPENSE"
                             /\ row.date >= startDate})

\* lines 200-201: the current instant with its day of the month set to 1; the
\* time of day stays
checkStartDate == setDate(now, 1)

\* lines 199-213: the sum a check of this budget works with
periodExpenses(budget) ==
  totalExpenses(budget.userId, CHOOSE a \in budget.defaultAccount : TRUE,
                checkStartDate)

\* (totalExpenses / budgetAmount) * 100 in binary floating point: a zero
\* divisor gives Infinity, or NaN for 0 / 0
percentageUsed(total, budgetAmount) ==
  IF budgetAmount = 0
  THEN [kind |-> IF total = 0 THEN "NaN" ELSE "Infinity", num |-> 0, den |-> 1]
  ELSE [kind |-> "finite", num |-> total * 100, den |-> budgetAmount]

\* p > k
Above(p, k) ==
  CASE p.kind = "NaN" -> FALSE
    [] p.kind = "Infinity" -> TRUE
    [] OTHER -> p.num > k * p.den

\* p >= k for a percentage p and a number k; NaN compares false
AtLeast(p, k) ==
  CASE p.kind = "NaN" -> FALSE
    [] p.kind = "Infinity" -> TRUE
    [] OTHER -> p.num >= k * p.den

\* the condition of lines 217-220
shouldAlert(budget, total) ==
  /\ AtLeast(percentageUsed(total, budget.amount), AlertThreshold)
  /\ \/ budget.lastAlertSent = NULL
     \/ isNewMonth(NewDate(budget.lastAlertSent), now)

\* the email of lines 221-234: its recipient's budget, the instant it is
\* sent and the figures of its data
AlertEmail(budget, total) ==
  [budgetId |-> budget.id,
   at |-> now,
   budgetAmount |-> budget.amount,
   totalExpenses |-> total]

\* lines 187-193: the step's result is kept for the rest of the run
FetchBudgets(c) ==
  /\ checks[c].pc = "idle"
  /\ \A q \in Checks : q < c => checks[q].pc # "idle"
  /\ checks' = [checks EXCEPT ![c] = [pc |-> "loop", budgets |-> budgets,
                                      todo |-> BudgetIds]]
  /\ UNCHANGED <<now, dbVars, jobVars, budgets, emails, calcVars>>

\* lines 196-197
CheckSkip(c) ==
  /\ checks[c].pc = "loop"
  /\ LET budget == checks[c].budgets[Current(c)]
     IN  budget.defaultAccount = {} \/ ~budget.hasEmail
  /\ checks' = Advance(c)
  /\ UNCHANGED <<now, dbVars, jobVars, budgets, emails, calcVars>>

\* lines 199-234: sum the month's expenses, decide, send the email
CheckBudget(c) ==
  /\ checks[c].pc = "loop"
  /\ LET budget == checks[c].budgets[Current(c)]
     IN  /\ budget.defaultAccount # {} /\ budget.hasEmail
         /\ LET total == periodExpenses(budget)
            IN  IF shouldAlert(budget, total)
                THEN /\ emails' = Append(emails, AlertEmail(budget, total))
                     /\ checks' = [checks EXCEPT ![c].pc = "update"]
                ELSE /\ emails' = emails
                     /\ checks' = Advance(c)
  /\ UNCHANGED <<now, dbVars, jobVars, budgets, calcVars>>

\* lines 236-239
UpdateLastAlert(c) ==
  /\ checks[c].pc = "update"
  /\ budgets' = [budgets EXCEPT ![Current(c)].lastAlertSent = now]
  /\ checks' = Advance(c)
  /\ UNCHANGED <<now, dbVars, jobVars, emails, calcVars>>

\* db.budget.update rejects after the email went out: the step throws, and
\* the job runner runs the step again with the budgets it fetched, or the run
\* ends failed
UpdateFail(c) ==
  /\ checks[c].pc = "update"
  /\ failures < MaxFailures
  /\ failures' = failures + 1
  /\ \E retry \in BOOLEAN :
       checks' = IF retry THEN [checks EXCEPT ![c].pc = "loop"]
                 ELSE [checks EXCEPT ![c] = IdleCheck]
  /\ UNCHANGED <<now, dbVars, events, runs, skipped, budgets, emails, calcVars>>

BudgetNow == At(2024, 1, 31, 1)

TickBudget ==
  /\ now < BudgetNow + MaxTicks
  /\ now' = now + 1
  /\ UNCHANGED <<dbVars, jobVars, alertVars, calcVars>>

\* the user's transactions: one expense of last month, one of 1 February
InitBudget ==
  /\ now = BudgetNow
  /\ \E a1 \in {30, 40}, a2 \in {40, 90} :
       /\ a1 = 30 => a2 = 40
       /\ templates =
         [t \in TxnIds |->
            IF t = 1
            THEN [Template(1, "EXPENSE", NoInterval, FALSE, NULL, NULL)
                    EXCEPT !.amount = a1, !.date = At(2024, 1, 15, 1)]
            ELSE [Template(2, "EXPENSE", NoInterval, FALSE, NULL, NULL)
                    EXCEPT !.amount = a2, !.date = At(2024, 2, 1, 0)]]
  /\ ledger = <<>>
  /\ balance = [a \in AccountIds |-> 0]
  /\ applied = [t \in TxnIds |-> NoneApplied]
  /\ IdleJobs
  /\ \E amount \in {0, 100},
        lastAlertSent \in {NULL, At(2023, 1, 31, 0), At(2024, 1, 30, 0)},
        hasEmail \in BOOLEAN :
       /\ ~hasEmail => (amount = 100 /\ lastAlertSent = NULL)
       /\ budgets = [b \in BudgetIds |-> Budget(b, amount, lastAlertSent, hasEmail, TRUE)]
  /\ emails = <<>>
  /\ checks = [c \in Checks |-> IdleCheck]
  /\ calc = NoCalc
  /\ dueCall = NoDueCall

NextBudget ==
  \/ TickBudget
  \/ \E c \in Checks : FetchBudgets(c)
  \/ \E c \in Checks : CheckSkip(c)
  \/ \E c \in Checks : CheckBudget(c)
  \/ \E c \in Checks : UpdateLastAlert(c)
  \/ \E c \in Checks : UpdateFail(c)

SpecBudget == InitBudget /\ [][NextBudget]_vars

\* the checks of the first day of a month: the user has an expense of last
\* month and one entered in the first half of this day
PeriodNow == At(2024, 2, 1, 0)

InitPeriod ==
  /\ now = PeriodNow
  /\ \E a2 \in {40, 90} :
       templates =
         [t \in TxnIds |->
            IF t = 1
            THEN [Template(1, "EXPENSE", NoInterval, FALSE, NULL, NULL)
                    EXCEPT !.amount = 30, !.date = At(2024, 1, 15, 1)]
            ELSE [Template(2, "EXPENSE", NoInterval, FALSE, NULL, NULL)
                    EXCEPT !.amount = a2, !.date = PeriodNow]]
  /\ ledger = <<>>
  /\ balance = [a \in AccountIds |-> 0]
  /\ applied = [t \in TxnIds |-> NoneApplied]
  /\ IdleJobs
  /\ \E lastAlertSent \in {NULL, At(2024, 1, 30, 0)}, hasEmail \in BOOLEAN :
       budgets = [b \in BudgetIds |-> Budget(b, 100, lastAlertSent, hasEmail, TRUE)]
  /\ emails = <<>>
  /\ checks = [c \in Checks |-> IdleCheck]
  /\ calc = NoCalc
  /\ dueCall = NoDueCall

SpecPeriod == InitPeriod /\ [][NextBudget]_vars

----------------------------------------------------------------------------
(* Properties of the budget alerts *)

\* the calendar month an instant lies in
YearMonth(ts) == <<CivilFromDays(DayOf(ts)).y, CivilFromDays(DayOf(ts)).m>>

\* C3: a budget gets at most one alert email per calendar month, however
\* often and however interleaved check-budget-alerts runs, also when the
\* lastAlertSent update fails after the email and the step runs again.
\* Stated for the budgets with a positive amount, which is where it fails
\* on its own account.
OneAlertPerMonth ==
  \A i, j \in 1 .. Len(emails) :
    (i < j /\ emails[i].budgetId = emails[j].budgetId /\ emails[i].budgetAmount > 0)
      => YearMonth(emails[i].at) # YearMonth(emails[j].at)

\* run c takes the decision of a check-budget step in this step
Decides(c) ==
  /\ checks[c].pc = "loop"
  /\ checks'[c] # checks[c]
  /\ checks[c].budgets[Current(c)].defaultAccount # {}
  /\ checks[c].budgets[Current(c)].hasEmail

\* the firing condition as the contract states it, for a budget as the step
\* was given it, the period expense sum and the instant of the check
MustFire(budget, periodExpenseSum, at) ==
  /\ periodExpenseSum * 100 >= 80 * budget.amount
  /\ \/ budget.lastAlertSent = NULL
     \/ YearMonth(budget.lastAlertSent) # YearMonth(at)

\* C4, the decision: a check of a budget with a positive amount sends the
\* alert if and only if the expense sum is at least 80% of the amount and
\* the budget it was given has no lastAlertSent or one of another month.
FiresIffDue ==
  [][\A c \in Checks :
       (Decides(c) /\ checks[c].budgets[Current(c)].amount > 0) =>
         LET budget == checks[c].budgets[Current(c)]
             sum == totalExpenses(budget.userId, "a1", setDate(now, 1))
         IN  (Len(emails') = Len(emails) + 1) = MustFire(budget, sum, now)]_vars

\* C4, only on firing: lastAlertSent changes only in a run that has sent the
\* alert for that budget, and then to the current instant; nothing else of a
\* budget changes.
SetOnlyOnFiring ==
  [][\A b \in BudgetIds :
       budgets'[b] # budgets[b] =>
         /\ budgets'[b] = [budgets[b] EXCEPT !.lastAlertSent = now]
         /\ \E c \in Checks : checks[c].pc = "update" /\ Current(c) = b
         /\ \E i \in 1 .. Len(emails) : emails[i].budgetId = b]_vars

\* C4, on firing: a step that has sent the alert and ends without an error
\* has set lastAlertSent to the current instant.
SetOnFiring ==
  [][\A c \in Checks :
       (checks[c].pc = "update" /\ checks'[c].pc # "update" /\ failures' = failures)
         => budgets'[Current(c)].lastAlertSent = now]_vars

\* C4: a budget check fires iff percentageUsed >= 80 and there was no alert
\* this month; on firing, and only on firing, lastAlertSent is set to now.
AlertContract == FiresIffDue /\ SetOnlyOnFiring /\ SetOnFiring

\* an alert was sent at exactly 80% of the budget and lastAlertSent set
AlertContractWitness ==
  \E i \in 1 .. Len(emails) :
    /\ emails[i].totalExpenses * 100 = 80 * emails[i].budgetAmount
    /\ emails[i].budgetAmount > 0
    /\ budgets[emails[i].budgetId].lastAlertSent = emails[i].at

\* C5: a budget whose amount is 0 never gets an alert, whatever the expense
\* sum and lastAlertSent.
ZeroBudgetNeverAlerts ==
  \A i \in 1 .. Len(emails) : emails[i].budgetAmount # 0

----------------------------------------------------------------------------
(* The recurring-transaction jobs together *)

\* a template is new (never processed, its first date set by the form) or
\* was processed a day ago
Schedules ==
  {[lastProcessed |-> NULL, nextRecurringDate |-> StartNow + SlotsPerDay],
   [lastProcessed |-> StartNow - SlotsPerDay, nextRecurringDate |-> StartNow + 1]}

Init ==
  /\ now = StartNow
  /\ \E type \in {"EXPENSE", "INCOME"}, interval \in {"DAILY", MalformedInterval},
        s \in Schedules :
       /\ (type = "INCOME") = (s.lastProcessed # NULL)
       /\ templates =
            [t \in TxnIds |->
               IF t = 1
               THEN Template(1, type, interval, TRUE, s.lastProcessed, s.nextRecurringDate)
               ELSE Template(2, "EXPENSE", NoInterval, FALSE, NULL, NULL)]
  /\ ledger = <<>>
  /\ balance = [a \in AccountIds |-> 0]
  /\ applied = [t \in TxnIds |-> NoneApplied]
  /\ IdleJobs
  /\ NoAlerts
  /\ calc = NoCalc
  /\ dueCall = NoDueCall

Next ==
  \/ Tick
  \/ triggerRecurringTransactions
  \/ \E r \in Runs : ProcessStart(r)
  \/ \E r \in Runs : TxCreate(r)
  \/ \E r \in Runs : TxIncrement(r)
  \/ \E r \in Runs : TxUpdate(r)
  \/ \E r \in Runs : TxCommit(r)
  \/ \E r \in Runs : TxFail(r)

Spec == Init /\ [][Next]_vars

\* The job runner runs what it has scheduled: the cron trigger keeps firing, a
\* sent event is delivered, a started step runs to its end.  Failures and the
\* passing of time are not forced.
Fairness ==
  /\ WF_vars(triggerRecurringTransactions)
  /\ \A r \in Runs :
       /\ WF_vars(ProcessStart(r))
       /\ WF_vars(TxCreate(r))
       /\ WF_vars(TxIncrement(r))
       /\ WF_vars(TxUpdate(r))
       /\ WF_vars(TxCommit(r))

SpecLive == Init /\ [][Next]_vars /\ Fairness

----------------------------------------------------------------------------
(* The recurring-transaction jobs in their environment: events that name no *)
(* row arrive, and the user edits a transaction between two job steps.      *)

\* the steps of the jobs when no write fails
NextJobs ==
  \/ Tick
  \/ triggerRecurringTransactions
  \/ \E r \in Runs : ProcessStart(r)
  \/ \E r \in Runs : TxCreate(r)
  \/ \E r \in Runs : TxIncrement(r)
  \/ \E r \in Runs : TxUpdate(r)
  \/ \E r \in Runs : TxCommit(r)

\* a transaction.recurring.process event that names no row is delivered; one
\* such event is followed until a run has returned on it
SendForeign ==
  \E e \in ForeignEvents :
    /\ Pending < MaxPending
    /\ \A f \in ForeignEvents : events[f] = 0
    /\ skipped \cap ForeignEvents = {}
    /\ events' = [events EXCEPT ![e] = @ + 1]
    /\ UNCHANGED <<now, dbVars, runs, failures, skipped, alertVars, calcVars>>

InitOpen == Init /\ templates[1].recurringInterval = "DAILY"

NextOpen == NextJobs \/ SendForeign

SpecOpen == InitOpen /\ [][NextOpen]_vars

\* the user opens a recurring transaction in the edit form, switches
\* 'Recurring Transaction' off and submits
updateTransaction(t) ==
  /\ templates[t].isRecurring
  /\ templates[t].status = "COMPLETED"
  /\ templates' = [templates EXCEPT ![t].isRecurring = FALSE]
  /\ UNCHANGED <<now, ledger, balance, applied, jobVars, alertVars, calcVars>>

\* a recurring expense, new or processed a day ago, and a second row that is
\* either an ordinary transaction or a recurring one that is still PENDING
InitEdit ==
  /\ now = StartNow
  /\ \E s \in Schedules, pending \in BOOLEAN :
       templates =
         [t \in TxnIds |->
            IF t = 1
            THEN Template(1, "EXPENSE", "DAILY", TRUE, s.lastProcessed, s.nextRecurringDate)
            ELSE IF pending
            THEN [Template(2, "EXPENSE", "DAILY", TRUE, NULL, StartNow)
                    EXCEPT !.status = "PENDING"]
            ELSE Template(2, "EXPENSE", NoInterval, FALSE, NULL, NULL)]
  /\ ledger = <<>>
  /\ balance = [a \in AccountIds |-> 0]
  /\ applied = [t \in TxnIds |-> NoneApplied]
  /\ IdleJobs
  /\ NoAlerts
  /\ calc = NoCalc
  /\ dueCall = NoDueCall

NextEdit == NextJobs \/ \E t \in TxnIds : updateTransaction(t)

SpecEdit == InitEdit /\ [][NextEdit]_vars

----------------------------------------------------------------------------
(* Properties of the recurring-transaction jobs *)

\* the ledger positions holding the '(Recurring)' entries generated from t
GeneratedFrom(t) ==
  {i \in 1 .. Len(ledger) :
     /\ ledger[i].template = t
     /\ ledger[i].description = templates[t].description \o " (Recurring)"}

\* C1: in every reachable state, also after a failure at any write of the
\* transaction, a template has as many generated ledger entries as balance
\* increments applied for it and as advances of its lastProcessed and
\* nextRecurringDate.
AllOrNothing ==
  \A t \in TxnIds :
    /\ applied[t].increments = Cardinality(GeneratedFrom(t))
    /\ applied[t].advances = Cardinality(GeneratedFrom(t))

\* a run has failed and another has committed
AllOrNothingWitness ==
  /\ failures > 0
  /\ Cardinality(GeneratedFrom(1)) > 0
  /\ applied[1].advances = Cardinality(GeneratedFrom(1))

\* C2: a due occurrence of a template (the state of the template between two
\* advances) gets exactly one ledger entry, whatever the interleaving of the
\* runs: no two generated entries stem from the same occurrence.
OncePerOccurrence ==
  \A i, j \in 1 .. Len(ledger) :
    (i < j /\ ledger[i].template = ledger[j].template)
      => ledger[i].occurrence # ledger[j].occurrence

SignedAmount(entry) ==
  IF entry.type = "EXPENSE" THEN 0 - entry.amount
  ELSE IF entry.type = "INCOME" THEN entry.amount
  ELSE 0

RECURSIVE SignedTotal(_, _)
SignedTotal(a, n) ==
  IF n = 0 THEN 0
  ELSE SignedTotal(a, n - 1)
         + (IF ledger[n].accountId = a THEN SignedAmount(ledger[n]) ELSE 0)

\* C8: every firing moves the balance of the template's account by -amount
\* for an EXPENSE and by +amount for an INCOME, so the balance is the sum of
\* the signed amounts of the generated entries, and every generated entry
\* carries the amount, type, category and account of its template.
BalanceFollowsType ==
  /\ \A a \in AccountIds : balance[a] = SignedTotal(a, Len(ledger))
  /\ \A i \in 1 .. Len(ledger) :
       LET entry == ledger[i]
           template == templates[entry.template]
       IN  /\ entry.amount = template.amount
           /\ entry.type = template.type
           /\ entry.category = template.category
           /\ entry.accountId = template.accountId

\* an EXPENSE has fired twice
BalanceFollowsTypeWitness ==
  /\ Len(ledger) = 2
  /\ templates[1].type = "EXPENSE"
  /\ balance["a1"] = 0 - 2 * templates[1].amount

\* the template a run works on
TemplateOf(r) == runs[r].transaction.id

\* C9, the failing run: a run that leaves its transaction either has
\* committed all three writes, or has changed nothing in the database and
\* has ended failed (the error is rethrown); in the second case the template
\* is still selected by the trigger's filter, unless another run has fired
\* it since this run read it.
FailureIsLoud ==
  [][\A r \in Runs :
       (runs[r].pc \in InTransaction /\ runs'[r].pc = "idle") =>
         \/ /\ Len(ledger') = Len(ledger) + 1
            /\ applied'[TemplateOf(r)].advances = applied[TemplateOf(r)].advances + 1
            /\ failures' = failures
         \/ /\ UNCHANGED dbVars
            /\ failures' = failures + 1
            /\ (applied[TemplateOf(r)].advances = runs[r].occurrence
                  => SelectedByTrigger(templates[TemplateOf(r)])')]_vars

\* C9, the retry: a template the trigger selects is eventually fired, once
\* failures have stopped.
EventuallyFired ==
  \A t \in TxnIds : \A n \in 0 .. MaxLedger - 1 :
    (SelectedByTrigger(templates[t]) /\ applied[t].advances = n)
      ~> (applied[t].advances > n)

\* C9: a failed firing fails loudly, leaves the template as it was, and the
\* template is selected again and eventually fired.
FailedFiringIsRetried == FailureIsLoud /\ EventuallyFired

\* a run has failed, nothing was written, the template is still selected
FailedFiringWitness ==
  /\ failures = 1
  /\ Len(ledger) = 0
  /\ \A r \in Runs : runs[r].pc = "idle"
  /\ SelectedByTrigger(templates[1])
  /\ templates[1].lastProcessed = NULL

\* C10: a template whose recurringInterval is none of the four is skipped:
\* no ledger entry is generated from it and no balance change is applied.
MalformedIntervalSkipped ==
  \A t \in TxnIds :
    templates[t].recurringInterval \notin Intervals =>
      /\ GeneratedFrom(t) = {}
      /\ applied[t].increments = 0

----------------------------------------------------------------------------
(* The utility functions on their own: SpecCalc applies them to inputs     *)
(* drawn from bounded sets.                                                *)

CalcFirstDay == DaysFromCivil(2023, 12, 1)
CalcStarts ==
  {d * SlotsPerDay + tod : d \in CalcFirstDay .. CalcFirstDay + MaxStartOffset,
                           tod \in 0 .. SlotsPerDay - 1}


DueNow == At(2024, 3, 1, 0)
DueDates == {DueNow - 1, DueNow, DueNow + 1}

InitCalcInputs ==
  \/ /\ now = DueNow
     /\ \E i \in Intervals \cup {MalformedInterval}, s \in CalcStarts :
          calc = [interval |-> i, start |-> s, prev |-> s, date |-> s, k |-> 0]
     /\ dueCall = NoDueCall
  \/ /\ now = DueNow
     /\ calc = NoCalc
     /\ \E lp \in {NULL} \cup DueDates, nd \in {NULL} \cup DueDates :
          /\ lp # NULL => nd # NULL
          /\ dueCall = [lastProcessed |-> lp, nextRecurringDate |-> nd,
                        called |-> FALSE, result |-> FALSE]

InitCalc ==
  /\ templates = [t \in TxnIds |-> Template(t, "EXPENSE", "DAILY", FALSE, NULL, NULL)]
  /\ ledger = <<>>
  /\ balance = [a \in AccountIds |-> 0]
  /\ applied = [t \in TxnIds |-> NoneApplied]
  /\ IdleJobs
  /\ NoAlerts
  /\ InitCalcInputs

ApplyNext ==
  /\ calc.start # 0
  /\ calc.k < MaxK
  /\ calc' = [calc EXCEPT !.prev = calc.date,
                          !.date = calculateNextRecurringDate(calc.date, calc.interval),
                          !.k = calc.k + 1]
  /\ UNCHANGED <<now, dueCall, dbVars, jobVars, alertVars>>

ApplyDue ==
  /\ calc.start = 0
  /\ ~dueCall.called
  /\ dueCall' = [dueCall EXCEPT !.called = TRUE,
                                !.result = isTransactionDue(dueCall)]
  /\ UNCHANGED <<now, calc, dbVars, jobVars, alertVars>>

NextCalc == ApplyNext \/ ApplyDue

SpecCalc == InitCalc /\ [][NextCalc]_vars

----------------------------------------------------------------------------
(* Properties of the utility functions *)

\* C6: isTransactionDue returns true exactly when lastProcessed is absent or
\* nextRecurringDate <= now; with lastProcessed absent it returns true
\* whatever nextRecurringDate is.
DueExactlyWhen ==
  dueCall.called =>
    /\ dueCall.result =
         (dueCall.lastProcessed = NULL \/ dueCall.nextRecurringDate <= now)
    /\ dueCall.lastProcessed = NULL => dueCall.result = TRUE

\* a processed transaction whose next date is this very instant is due
DueExactlyWhenWitness ==
  /\ dueCall.called
  /\ dueCall.lastProcessed # NULL
  /\ dueCall.nextRecurringDate = now
  /\ dueCall.result = TRUE

IsLeapYear(y) == (y % 4 = 0 /\ y % 100 # 0) \/ y % 400 = 0

DaysInMonth(y, m) ==
  IF m = 2 THEN (IF IsLeapYear(y) THEN 29 ELSE 28)
  ELSE IF m \in {4, 6, 9, 11} THEN 30 ELSE 31

\* the calendar date one month after y-m-d: the same day of the next month,
\* carried into the month after it when the next month is too short
MonthLater(y, m, d) ==
  LET ny == IF m = 12 THEN y + 1 ELSE y
      nm == IF m = 12 THEN 1 ELSE m + 1
      len == DaysInMonth(ny, nm)
  IN  IF d <= len THEN [y |-> ny, m |-> nm, d |-> d]
      ELSE [y |-> IF nm = 12 THEN ny + 1 ELSE ny,
            m |-> IF nm = 12 THEN 1 ELSE nm + 1,
            d |-> d - len]

\* the calendar date one year after y-m-d: the same day of the same month,
\* 1 March for 29 February when the next year is no leap year
YearLater(y, m, d) ==
  IF m = 2 /\ d = 29 /\ ~IsLeapYear(y + 1)
  THEN [y |-> y + 1, m |-> 3, d |-> 1]
  ELSE [y |-> y + 1, m |-> m, d |-> d]

\* C7: for each of the four intervals and every start date, every
\* application of calculateNextRecurringDate yields a later date, one
\* calendar unit after the date it was applied to, at the same time of day:
\* +1 day, +7 days, +1 calendar month, +1 calendar year (a day the target
\* month lacks carries over, as Date does).  MONTHLY applied 12 times from
\* 2024-01-15 yields 2025-01-15, once from 2024-03-01 yields 2024-04-01.
CalendarSpacing ==
  (calc.k > 0 /\ calc.interval \in Intervals) =>
    LET from == CivilFromDays(DayOf(calc.prev))
        to == CivilFromDays(DayOf(calc.date))
    IN  /\ calc.date > calc.prev
        /\ TimeOfDay(calc.date) = TimeOfDay(calc.prev)
        /\ calc.interval = "DAILY" => DayOf(calc.date) = DayOf(calc.prev) + 1
        /\ calc.interval = "WEEKLY" => DayOf(calc.date) = DayOf(calc.prev) + 7
        /\ calc.interval = "MONTHLY" =>
             /\ to = MonthLater(from.y, from.m, from.d)
             /\ DayOf(calc.date) - DayOf(calc.prev) = DaysInMonth(from.y, from.m)
        /\ calc.interval = "YEARLY" =>
             /\ to = YearLater(from.y, from.m, from.d)
             /\ DayOf(calc.date) - DayOf(calc.prev) \in {365, 366}
        /\ (calc.interval = "MONTHLY" /\ calc.k = 12
              /\ DayOf(calc.start) = DaysFromCivil(2024, 1, 15))
             => to = [y |-> 2025, m |-> 1, d |-> 15]
        /\ (calc.interval = "MONTHLY" /\ calc.k = 1
              /\ DayOf(calc.start) = DaysFromCivil(2024, 3, 1))
             => to = [y |-> 2024, m |-> 4, d |-> 1]

\* MONTHLY has been applied 12 times from 2024-01-15
CalendarSpacingWitness ==
  /\ calc.interval = "MONTHLY"
  /\ calc.start = At(2024, 1, 15, 0)
  /\ calc.k = 12
  /\ calc.date = At(2025, 1, 15, 0)

----------------------------------------------------------------------------
(* Properties of the jobs in their environment *)

\* a row the contract of the trigger makes it select at this instant
Eligible(row) ==
  /\ row.isRecurring = TRUE
  /\ row.status = "COMPLETED"
  /\ \/ row.lastProcessed = NULL
     \/ row.nextRecurringDate # NULL /\ row.nextRecurringDate <= now

\* this step is a trigger pass that sends something
TriggerStep ==
  /\ runs' = runs
  /\ \E e \in RowEvents : events'[e] > events[e]

\* C11: a trigger pass sends exactly one event, carrying the row's id and
\* userId, for each row with isRecurring, status COMPLETED and (lastProcessed
\* absent or nextRecurringDate <= now), sends no other event, and changes no
\* transaction, account or budget.
TriggerEmitsDue ==
  [][TriggerStep =>
       /\ \A e \in Events :
            events'[e] - events[e] =
              IF \E row \in Rows : /\ Eligible(row)
                                   /\ e.transactionId = row.id
                                   /\ e.userId = row.userId
              THEN 1 ELSE 0
       /\ UNCHANGED <<templates, ledger, balance, budgets>>]_vars

\* a pass has sent the event of the due template and none for the recurring
\* row that is still PENDING
TriggerEmitsDueWitness ==
  /\ events[[transactionId |-> 1, userId |-> "u1"]] = 1
  /\ failures = 0
  /\ templates[1].isRecurring
  /\ templates[2].isRecurring /\ templates[2].status = "PENDING"
  /\ events[[transactionId |-> 2, userId |-> "u1"]] = 0

\* a run of process-recurring-transaction takes event e in this step
Handles(e) == events'[e] = events[e] - 1

\* the event lacks transactionId or userId, or no transaction has that id and
\* that owner
NamesNoRow(e) ==
  \/ e.transactionId = NULL
  \/ e.userId = NoUser
  \/ ~\E row \in Rows : row.id = e.transactionId /\ row.userId = e.userId

\* C12: a run given an event without transactionId or userId, or one that
\* references no transaction of that user, ends at once without raising and
\* leaves every transaction and every balance as it was.
MissingIsSkipped ==
  [][\A e \in Events :
       (Handles(e) /\ NamesNoRow(e)) =>
         /\ runs' = runs
         /\ failures' = failures
         /\ skipped' = {e}
         /\ UNCHANGED <<templates, ledger, balance>>]_vars

\* a run has returned on an event that names a due template and another
\* user, and nothing was fired
MissingIsSkippedWitness ==
  /\ skipped = {[transactionId |-> 1, userId |-> OtherUser]}
  /\ SelectedByTrigger(templates[1])
  /\ ledger = <<>>
  /\ balance = [a \in AccountIds |-> 0]
  /\ \A r \in Runs : runs[r].pc = "idle"

----------------------------------------------------------------------------
(* Properties of the period expense sum *)

\* the EXPENSE transactions of the account dated within the calendar month
\* of the instant at, summed
MonthExpenses(userId, accountId, at) ==
  SumAmounts({row \in Rows : /\ row.userId = userId
                             /\ row.accountId = accountId
                             /\ row.type = "EXPENSE"
                             /\ YearMonth(row.date) = YearMonth(at)})

\* C13: the sum a budget check works with is the sum of all EXPENSE
\* transactions of the user's default account dated within the current
\* calendar month, from the first instant of its first day, whatever the time
\* of day of the check; the figure in an alert email is that sum.
PeriodSumIsMonthSum ==
  [][\A c \in Checks :
       Decides(c) =>
         LET budget == checks[c].budgets[Current(c)]
             month == MonthExpenses(budget.userId,
                                    CHOOSE a \in budget.defaultAccount : TRUE, now)
         IN  /\ periodExpenses(budget) = month
             /\ Len(emails') > Len(emails)
                  => emails'[Len(emails')].totalExpenses = month]_vars

----------------------------------------------------------------------------
(* Properties of a firing and the runs that follow it *)

\* C14: once a template with one of the four intervals has been fired, a run
\* that is given its event after the commit and before the new
\* nextRecurringDate returns without starting a database transaction: the
\* ledger, the balances, lastProcessed and nextRecurringDate stay as they are.
DuplicateIsIdle ==
  [][\A t \in TxnIds :
       (/\ Handles(EventOf(templates[t]))
        /\ templates[t].recurringInterval \in Intervals
        /\ applied[t].advances > 0
        /\ now < templates[t].nextRecurringDate)
         => /\ runs' = runs
            /\ skipped' = {EventOf(templates[t])}
            /\ UNCHANGED <<templates, ledger, balance>>]_vars

\* the template was fired once, a second event for it was given to a run
\* before its next date, and there is still one entry and one decrement
DuplicateIsIdleWitness ==
  /\ skipped = {EventOf(templates[1])}
  /\ templates[1].recurringInterval \in Intervals
  /\ applied[1].advances = 1
  /\ now < templates[1].nextRecurringDate
  /\ \A r \in Runs : runs[r].pc = "idle"
  /\ Len(ledger) = 1
  /\ balance["a1"] = SignedAmount(ledger[1])

\* C15: a run fires only a transaction that is recurring and COMPLETED when
\* the run reads it, also when the user has switched it to non-recurring
\* after the trigger pass that sent its event.
FiresOnlyEligible ==
  \A r \in Runs :
    runs[r].pc \in InTransaction =>
      /\ runs[r].transaction.isRecurring = TRUE
      /\ runs[r].transaction.status = "COMPLETED"

\* the ids of the rows that are recurring
RecurringIds == {row.id : row \in {x \in Rows : x.isRecurring = TRUE}}

\* C16, the entries: every generated ledger entry is non-recurring, is not
\* selected by the trigger, and no event for it is in flight or with a run.
GeneratedStayOut ==
  /\ \A i \in 1 .. Len(ledger) :
       /\ ledger[i].isRecurring = FALSE
       /\ ~SelectedByTrigger(ledger[i])
       /\ events[EventOf(ledger[i])] = 0
  /\ \A r \in Runs :
       runs[r].pc \in InTransaction => runs[r].transaction.id \in TxnIds

\* C16: firings do not cascade.  Generated entries are non-recurring and are
\* never selected by a trigger pass, and no step of the trigger or of a
\* firing adds a row to the recurring ones or takes one away.
NoCascade == []GeneratedStayOut /\ [][RecurringIds' = RecurringIds]_vars

\* the recurring template has fired twice and is still the only recurring row
NoCascadeWitness ==
  /\ Len(ledger) = 2
  /\ \A i \in 1 .. Len(ledger) : ledger[i].template = 1
  /\ RecurringIds = {1}
  /\ applied[1].advances = 2

====
